---- MODULE Spec2Model ----
(* vmlinux-gdb.py: gdb commands that load the symbols of the modules of a  *)
(* running Linux kernel.  The remote kernel memory, the kernel build tree, *)
(* the output of ssh and of gdb are the environment; the command handlers  *)
(* and the load-time script are the program.                               *)
EXTENDS Integers, Sequences, FiniteSets, TLC

(* ------------------------------ bounds -------------------------------- *)
\* width in bits of 'unsigned long' and of a pointer in the model
W == 4
\* largest number of modules in the kernel's module list
MaxMods == 2
\* largest number of lines ssh returns
MaxLines == 3
\* largest number of words in the first line of 'show architecture'
MaxWords == 3

Word == 2 ^ W
Addr == 0 .. (Word - 1)

VARIABLES
    \* remote kernel and host environment
    kmods,      \* the kernel's module list, in list order: [base, name, sect]
    tree,       \* the build tree, in the order 'find' walks it
    frame,      \* [attached, mod]: a running kernel is attached; mod = i > 0 when
                \* stopped in load_module with 'mod' pointing to kmods[i], else 0
    \* the command being run
    command,    \* the command invoked, "" before any
    arg,        \* its argument string
    pc,         \* where its handler stands
    walked,     \* listhead_iter has been started
    pos,        \* listhead_iter's cursor
    yielded,    \* the entries listhead_iter has yielded
    exc,        \* the exception that left the handler, "" if none
    cmds,       \* every gdb.execute call so far: [cmd, ok]
    out,        \* everything printed so far
    \* add-kernel-modules-network
    sshOut,     \* the lines ssh returns
    database,   \* module -> (section -> address)
    visited,    \* the modules of database the for loop has taken
    \* load time
    archOut, arch,
    \* offset / list_entry applied to one element
    etype, emember, ebase, eoff, eres

vars == <<kmods, tree, frame, command, arg, pc, walked, pos, yielded, exc, cmds, out,
          sshOut, database, visited, archOut, arch, etype, emember, ebase, eoff, eres>>

(* --------------------- types known to the debugger -------------------- *)
\* member offsets, in words, of the structure types the script looks up
StructLayout ==
    [t \in {"struct module", "struct list_head"} |->
        IF t = "struct module"
        THEN [state |-> 0, list |-> 1, name |-> 3, sect_attrs |-> 6]
        ELSE [next |-> 0, prev |-> 1]]

Members(t) == DOMAIN StructLayout[t]

\* def offset(gdb_type, member): address of the member of a structure at 0
offset(gdb_type, member) == (0 + StructLayout[gdb_type][member]) % Word

\* a faulty variant: adds the offset instead of subtracting it
list_entry_plus(list_head_ptr, gdb_type, off) == (list_head_ptr + off) % Word

\* def list_entry(list_head_ptr, gdb_type, off): unsigned long arithmetic
list_entry(list_head_ptr, gdb_type, off) == (list_head_ptr - off) % Word

(* ---------------------- the remote kernel memory ---------------------- *)
\* address of the kernel's global list_head 'modules'
HeadAddr == Word \div 2

\* address of the list_head embedded in the i-th module of the kernel
LinkOf(i) == (kmods[i].base + StructLayout["struct module"].list) % Word

\* list_head['next'] read at address a
next_at(a) ==
    IF a = HeadAddr
    THEN IF kmods = <<>> THEN HeadAddr ELSE LinkOf(1)
    ELSE IF \E i \in DOMAIN kmods : LinkOf(i) = a
         THEN LET i == CHOOSE j \in DOMAIN kmods : LinkOf(j) = a
              IN  IF i = Len(kmods) THEN HeadAddr ELSE LinkOf(i + 1)
         ELSE HeadAddr   \* memory outside the list: never read on a well-formed list

\* mod['name'].string() for a module pointer
name_at(mod) ==
    IF \E i \in DOMAIN kmods : kmods[i].base = mod
    THEN kmods[CHOOSE i \in DOMAIN kmods : kmods[i].base = mod].name
    ELSE ""

\* mod['sect_attrs'] for a module pointer: [nsections, attrs]
sect_at(mod) ==
    IF \E i \in DOMAIN kmods : kmods[i].base = mod
    THEN kmods[CHOOSE i \in DOMAIN kmods : kmods[i].base = mod].sect
    ELSE [nsections |-> 0, attrs |-> <<>>]

(* --------------------------- the build tree --------------------------- *)
RECURSIVE JoinDirs(_)
JoinDirs(dirs) == IF dirs = <<>> THEN "" ELSE "/" \o Head(dirs) \o JoinDirs(Tail(dirs))

\* the path 'find .' prints for a .ko file of the tree
PathStr(p) == "." \o JoinDirs(p.dirs) \o "/" \o p.name \o ".ko"

\* find's test -path './lib/modules/*'
UnderLibModules(p) ==
    Len(p.dirs) >= 2 /\ p.dirs[1] = "lib" /\ p.dirs[2] = "modules"

\* def findBuildPath(m): first line of
\* find . ! -path './lib/modules/*' -name m.ko, '' when there is none
findBuildPath(m) ==
    LET found == SelectSeq(tree, LAMBDA p : p.name = m /\ ~UnderLibModules(p))
    IN  IF found = <<>> THEN "" ELSE PathStr(Head(found))

\* os.path.isfile(filename)
isfile(filename) == \E i \in DOMAIN tree : PathStr(tree[i]) = filename

(* --------------------------- listhead_iter ---------------------------- *)
\* pos = list_head['next']
listhead_iter_first(list_head) == next_at(list_head)

\* a faulty variant: the loop stops one link early
listhead_iter_more_early(p, list_head) == next_at(p) # list_head

\* while pos != list_head.address
listhead_iter_more(p, list_head) == p # list_head

\* yield list_entry(pos, type, off)
listhead_iter_yield(p, typename, member) ==
    list_entry(p, typename, offset(typename, member))

\* pos = pos['next']
listhead_iter_next(p) == next_at(p)

(* ------------------------------ messages ------------------------------ *)
MsgNoKernel == "A running kernel must be attached in order to get section information"
MsgNoMod == "This command should be run while stopped at a breakpoint\njust after load_module() returns in kernel/module.c"
MsgNoFile(m) == "Could not find module file for " \o m
MsgLoadError(filename) == "Error: unable to load symbols for " \o filename \o ".\n"
MsgUsage == "USAGE: modprobe module"
MsgNotLoaded(m) == "Module " \o m \o " is not currently loaded by the kernel."

(* ---------------------- section attributes of a module ---------------- *)
\* attrs = [ sect['attrs'][i] for i in range(num_sect) ]
attrs_of(mod) == SubSeq(sect_at(mod).attrs, 1, sect_at(mod).nsections)

\* adict = dict([(a['name'].string(), str(a['address'])) for a in attrs]):
\* a later pair replaces an earlier one with the same name
adict_of(mod) ==
    LET attrs == attrs_of(mod)
        last(s) == CHOOSE i \in DOMAIN attrs :
                      /\ attrs[i].name = s
                      /\ \A j \in DOMAIN attrs : attrs[j].name = s => j <= i
    IN  [s \in {attrs[i].name : i \in DOMAIN attrs} |-> ToString(attrs[last(s)].address)]

\* for sec in (...): if sec in adict: cmd += ' -s %s %s' % (sec, adict[sec])
RECURSIVE SectionOptions(_, _)
SectionOptions(secs, adict) ==
    IF secs = <<>> THEN ""
    ELSE (IF Head(secs) \in DOMAIN adict
          THEN " -s " \o Head(secs) \o " " \o adict[Head(secs)]
          ELSE "") \o SectionOptions(Tail(secs), adict)

\* a faulty variant: the error ends the traversal
AddAllMods_except_stop(filename) ==
    [print |-> <<MsgLoadError(filename)>>, pc |-> "done"]

\* AddAllModsCmd.invoke, except: print the message, the for loop goes on
AddAllMods_except(filename) ==
    [print |-> <<MsgLoadError(filename)>>, pc |-> "loop"]

\* a faulty variant: an option for '.rodata' too
AddAllMods_cmd_rodata(filename, adict) ==
    "add-symbol-file " \o filename \o " " \o adict[".text"]
        \o SectionOptions(<<".bss", ".data", ".init.text", ".rodata">>, adict)

\* AddAllModsCmd.invoke: the command built for one module
AddAllMods_cmd(filename, adict) ==
    "add-symbol-file " \o filename \o " " \o adict[".text"]
        \o SectionOptions(<<".bss", ".data", ".init.text">>, adict)

\* a faulty variant: '.data' before '.bss'
AddKernMod_cmd_swapped(filename, adict) ==
    "add-symbol-file " \o filename \o " " \o adict[".text"]
        \o SectionOptions(<<".data", ".bss", ".init.text">>, adict)

\* AddKernModCmd.invoke: the command built for the module found
AddKernMod_cmd(filename, adict) ==
    "add-symbol-file " \o filename \o " " \o adict[".text"]
        \o SectionOptions(<<".bss", ".data", ".init.text">>, adict)

\* AddThisModCmd.invoke: the command built for the module 'mod' points to
AddThisMod_cmd(filename, adict) ==
    "add-symbol-file " \o filename \o " " \o adict[".text"]
        \o SectionOptions(<<".bss", ".data", ".init.text">>, adict)

(* ------------------------- environment inputs ------------------------- *)
Attr(n, a) == [name |-> n, address |-> a]
Sect(attrs) == [nsections |-> Len(attrs), attrs |-> attrs]

\* what a loaded module can look like: its name and its section attributes
ModImages ==
    { [name |-> "a", sect |-> Sect(<<Attr(".data", 9), Attr(".text", 8), Attr(".rodata", 10),
                                     Attr(".bss", 11), Attr(".init.text", 12)>>)],
      [name |-> "a", sect |-> Sect(<<Attr(".data", 5)>>)],
      [name |-> "b", sect |-> Sect(<<Attr(".init.text", 3), Attr(".text", 2),
                                     Attr(".symtab", 4)>>)],
      [name |-> "b", sect |-> Sect(<<Attr(".text", 14)>>)] }

\* where a module can lie: the first one makes its list_head lie at address 0
ModBases == { (Word - 1 + k) % Word : k \in 0 .. MaxMods }

\* the well-formed module lists of at most MaxMods modules at distinct addresses
KernelLists ==
    UNION { { l \in [1 .. n -> [base : ModBases, name : {"a", "b"},
                                sect : {m.sect : m \in ModImages}]] :
                /\ \A i \in 1 .. n : [name |-> l[i].name, sect |-> l[i].sect] \in ModImages
                /\ \A i, j \in 1 .. n : i # j => l[i].base # l[j].base }
            : n \in 0 .. MaxMods }

File(dirs, name) == [dirs |-> dirs, name |-> name]

Trees ==
    { <<>>,
      <<File(<<"lib", "modules", "5.0">>, "a"), File(<<"drivers">>, "a"),
        File(<<"net">>, "a"), File(<<"lib", "modules", "5.0">>, "b")>>,
      <<File(<<"fs">>, "b"), File(<<"drivers">>, "a")>> }

ModNames == {"", "a", "b"}

(* ------------------------- gdb's view of the target ------------------- *)
\* a faulty variant: the failure of the read goes unnoticed
CanReadModules_always == TRUE

\* gdb.selected_frame() and frame.read_var("modules") succeed
CanReadModules == frame.attached

\* gdb.selected_frame() and frame.read_var("mod") succeed
CanReadMod == frame.attached /\ frame.mod \in DOMAIN kmods

\* the value of 'mod' in load_module's frame
ModVar == kmods[frame.mod].base

NotStarted ==
    /\ command = ""
    /\ pc = "idle"

Begin(c, a) ==
    /\ NotStarted
    /\ command' = c
    /\ arg' = a

Env == <<kmods, tree, frame>>
Other == <<sshOut, database, visited, archOut, arch, etype, emember, ebase, eoff, eres>>

(* ------------------------------- lsmod -------------------------------- *)
LsmodInvoke ==
    /\ Begin("lsmod", "")
    /\ IF ~CanReadModules
       THEN /\ out' = Append(out, MsgNoKernel)
            /\ pc' = "done"
            /\ UNCHANGED <<walked, pos>>
       ELSE /\ walked' = TRUE
            /\ pos' = listhead_iter_first(HeadAddr)
            /\ pc' = "loop"
            /\ out' = out
    /\ UNCHANGED <<Env, Other, yielded, exc, cmds>>

LsmodStep ==
    /\ command = "lsmod" /\ pc = "loop"
    /\ IF listhead_iter_more(pos, HeadAddr)
       THEN LET mod == listhead_iter_yield(pos, "struct module", "list")
            IN  /\ yielded' = Append(yielded, mod)
                /\ out' = Append(out, name_at(mod))
                /\ pos' = listhead_iter_next(pos)
                /\ pc' = "loop"
       ELSE /\ pc' = "done"
            /\ UNCHANGED <<yielded, out, pos>>
    /\ UNCHANGED <<Env, Other, command, arg, walked, exc, cmds>>

(* ------------------------- add-kernel-modules ------------------------- *)
AddAllModsInvoke ==
    /\ Begin("add-kernel-modules", "")
    /\ IF ~CanReadModules
       THEN /\ out' = Append(out, MsgNoKernel)
            /\ pc' = "done"
            /\ UNCHANGED <<walked, pos>>
       ELSE /\ walked' = TRUE
            /\ pos' = listhead_iter_first(HeadAddr)
            /\ pc' = "loop"
            /\ out' = out
    /\ UNCHANGED <<Env, Other, yielded, exc, cmds>>

\* one turn of the for loop; gdb.execute(cmd) succeeds or raises
AddAllModsStep ==
    /\ command = "add-kernel-modules" /\ pc = "loop"
    /\ IF listhead_iter_more(pos, HeadAddr)
       THEN LET mod == listhead_iter_yield(pos, "struct module", "list")
                filename == findBuildPath(name_at(mod))
                adict == adict_of(mod)
            IN  /\ yielded' = Append(yielded, mod)
                /\ pos' = listhead_iter_next(pos)
                /\ IF ~isfile(filename)
                   THEN /\ out' = Append(out, MsgNoFile(name_at(mod)))
                        /\ UNCHANGED <<cmds, pc>>
                   ELSE IF ".text" \notin DOMAIN adict
                   THEN UNCHANGED <<out, cmds, pc>>
                   ELSE \E ok \in BOOLEAN :
                          /\ cmds' = Append(cmds, [cmd |-> AddAllMods_cmd(filename, adict),
                                                   ok |-> ok])
                          /\ out' = IF ok THEN out
                                    ELSE out \o AddAllMods_except(filename).print
                          /\ pc' = IF ok THEN "loop" ELSE AddAllMods_except(filename).pc
       ELSE /\ pc' = "done"
            /\ UNCHANGED <<yielded, out, pos, cmds>>
    /\ UNCHANGED <<Env, Other, command, arg, walked, exc>>

(* ------------------------------ modprobe ------------------------------ *)
AddKernModInvoke ==
    \E modname \in ModNames :
        /\ Begin("modprobe", modname)
        /\ IF modname = ""
           THEN /\ out' = Append(out, MsgUsage)
                /\ pc' = "done"
                /\ UNCHANGED <<walked, pos>>
           ELSE IF ~isfile(findBuildPath(modname))
           THEN /\ out' = Append(out, MsgNoFile(modname))
                /\ pc' = "done"
                /\ UNCHANGED <<walked, pos>>
           ELSE IF ~CanReadModules
           THEN /\ out' = Append(out, MsgNoKernel)
                /\ pc' = "done"
                /\ UNCHANGED <<walked, pos>>
           ELSE /\ walked' = TRUE
                /\ pos' = listhead_iter_first(HeadAddr)
                /\ pc' = "loop"
                /\ out' = out
        /\ UNCHANGED <<Env, Other, yielded, exc, cmds>>

\* one turn of the for loop; adict['.text'] raises KeyError when the module
\* found has no '.text' attribute
AddKernModStep ==
    /\ command = "modprobe" /\ pc = "loop"
    /\ IF listhead_iter_more(pos, HeadAddr)
       THEN LET mod == listhead_iter_yield(pos, "struct module", "list")
                filename == findBuildPath(arg)
                adict == adict_of(mod)
            IN  /\ yielded' = Append(yielded, mod)
                /\ IF name_at(mod) # arg
                   THEN /\ pos' = listhead_iter_next(pos)
                        /\ pc' = "loop"
                        /\ UNCHANGED <<out, cmds, exc>>
                   ELSE IF ".text" \notin DOMAIN adict
                   THEN /\ exc' = "KeyError"
                        /\ pc' = "done"
                        /\ UNCHANGED <<out, cmds, pos>>
                   ELSE \E ok \in BOOLEAN :
                          /\ cmds' = Append(cmds, [cmd |-> AddKernMod_cmd(filename, adict),
                                                   ok |-> ok])
                          /\ out' = IF ok THEN out
                                    ELSE Append(out, MsgLoadError(filename))
                          /\ pc' = "done"
                          /\ UNCHANGED <<pos, exc>>
       ELSE /\ out' = Append(out, MsgNotLoaded(arg))
            /\ pc' = "done"
            /\ UNCHANGED <<yielded, pos, cmds, exc>>
    /\ UNCHANGED <<Env, Other, command, arg, walked>>

(* --------------------------- add-this-module -------------------------- *)
AddThisModInvoke ==
    \E name \in ModNames :
        /\ Begin("add-this-module", name)
        /\ pc' = "done"
        /\ IF ~CanReadMod
           THEN /\ out' = Append(out, MsgNoMod)
                /\ cmds' = cmds
           ELSE LET mod == ModVar
                    this_module == name_at(mod)
                    filename == findBuildPath(this_module)
                    adict == adict_of(mod)
                IN  IF (IF name = "" THEN this_module ELSE name) # this_module
                    THEN UNCHANGED <<out, cmds>>
                    ELSE IF ~isfile(filename)
                    THEN /\ out' = Append(out, MsgNoFile(this_module))
                         /\ cmds' = cmds
                    ELSE IF ".text" \notin DOMAIN adict
                    THEN UNCHANGED <<out, cmds>>
                    ELSE \E ok \in BOOLEAN :
                           /\ cmds' = Append(cmds, [cmd |-> AddThisMod_cmd(filename, adict),
                                                    ok |-> ok])
                           /\ out' = IF ok THEN out
                                     ELSE Append(out, MsgLoadError(filename))
        /\ UNCHANGED <<Env, Other, walked, pos, yielded, exc>>

(* ------------------- the commands on the kernel's list ---------------- *)
Quiet ==
    /\ command = "" /\ arg = "" /\ pc = "idle"
    /\ walked = FALSE /\ pos = HeadAddr /\ yielded = <<>>
    /\ exc = "" /\ cmds = <<>> /\ out = <<>>

NoNet == sshOut = <<>> /\ database = <<>> /\ visited = {}
NoLoad == archOut = <<>> /\ arch = ""
NoEntry == etype = "" /\ emember = "" /\ ebase = 0 /\ eoff = 0 /\ eres = 0

Init ==
    /\ kmods \in KernelLists
    /\ tree \in Trees
    /\ frame \in {[attached |-> FALSE, mod |-> 0]}
                 \cup {[attached |-> TRUE, mod |-> i] : i \in 0 .. Len(kmods)}
    /\ Quiet /\ NoNet /\ NoLoad /\ NoEntry

Next ==
    \/ LsmodInvoke
    \/ LsmodStep
    \/ AddAllModsInvoke
    \/ AddAllModsStep
    \/ AddKernModInvoke
    \/ AddKernModStep
    \/ AddThisModInvoke

Spec == Init /\ [][Next]_vars

(* ------------------------ offset and list_entry ----------------------- *)
\* the address of member m of an element at address b
MemberAddr(b, t, m) == (b + StructLayout[t][m]) % Word

EntryOffset ==
    /\ etype # "" /\ pc = "idle"
    /\ eoff' = offset(etype, emember)
    /\ pc' = "offset"
    /\ UNCHANGED <<Env, command, arg, walked, pos, yielded, exc, cmds, out,
                   sshOut, database, visited, archOut, arch, etype, emember, ebase, eres>>

EntryListEntry ==
    /\ etype # "" /\ pc = "offset"
    /\ eres' = list_entry(MemberAddr(ebase, etype, emember), etype, eoff)
    /\ pc' = "done"
    /\ UNCHANGED <<Env, command, arg, walked, pos, yielded, exc, cmds, out,
                   sshOut, database, visited, archOut, arch, etype, emember, ebase, eoff>>

NoKernel ==
    /\ kmods = <<>>
    /\ frame = [attached |-> FALSE, mod |-> 0]

InitEntry ==
    /\ etype \in DOMAIN StructLayout
    /\ emember \in Members(etype)
    /\ ebase \in Addr
    /\ eoff = 0 /\ eres = 0
    /\ NoKernel /\ tree = <<>>
    /\ Quiet /\ NoNet /\ NoLoad

NextEntry ==
    \/ EntryOffset
    \/ EntryListEntry

SpecEntry == InitEntry /\ [][NextEntry]_vars

(* --------------------- add-kernel-modules-network --------------------- *)
\* a line of ssh's output: the groups of
\* /sys/module/(\w+)/sections/([.\w]+):(\w+) when the pattern matches it
Matched(m, s, a) == [match |-> TRUE, module |-> m, section |-> s, address |-> a]
Unmatched == [match |-> FALSE, module |-> "", section |-> "", address |-> ""]

SshLines ==
    { Unmatched,
      Matched("a", ".text", "0xa0"), Matched("a", ".data", "0xa1"),
      Matched("b", ".bss", "0xb0"), Matched("b", ".text", "0xb1") }

SshOutputs == UNION { [1 .. n -> SshLines] : n \in 0 .. MaxLines }

Targets == {"", "root@10.1.2.3"}

\* the for loop over mods.readlines(): a later line replaces an earlier one
\* of the same module and section
database_of(lines) ==
    LET hits == {i \in DOMAIN lines : lines[i].match}
        last(m, sec) == CHOOSE i \in hits :
                          /\ lines[i].module = m /\ lines[i].section = sec
                          /\ \A j \in hits : (lines[j].module = m /\ lines[j].section = sec)
                                                => j <= i
    IN  [m \in {lines[i].module : i \in hits} |->
            [sec \in {lines[i].section : i \in {j \in hits : lines[j].module = m}} |->
                lines[last(m, sec)].address]]

\* the orders in which a dict can hand out its keys
Orders(S) == { o \in [1 .. Cardinality(S) -> S] :
                 \A i, j \in DOMAIN o : i # j => o[i] # o[j] }

RECURSIVE AllOptions(_, _)
AllOptions(order, sects) ==
    IF order = <<>> THEN ""
    ELSE " -s " \o Head(order) \o " " \o sects[Head(order)] \o AllOptions(Tail(order), sects)

\* AddAllModsCmdFast.invoke: the command built for one module of database
AddAllModsFast_cmd(filename, sects, order) ==
    "add-symbol-file " \o filename \o " " \o sects[".text"] \o AllOptions(order, sects)

\* a faulty variant: no try around gdb.execute(cmd), the error leaves the handler
AddAllModsFast_except_abort(filename) ==
    [print |-> <<>>, pc |-> "done", exc |-> "gdb.error"]

\* except: print "Error: unable to load symbols for %s.\n" % filename
AddAllModsFast_except(filename) ==
    [print |-> <<MsgLoadError(filename)>>, pc |-> "loop", exc |-> ""]

MsgNetHelp ==
    <<"This command gets the module data  from the target over an ssh connection.",
      "EXAMPLE add-kernel-modules-network root@10.1.2.3">>

\* up to the for loop over database; gdb.execute("monitor go") succeeds or raises
AddAllModsFastInvoke ==
    \E target \in Targets :
        /\ Begin("add-kernel-modules-network", target)
        /\ IF target = ""
           THEN /\ out' = out \o MsgNetHelp
                /\ pc' = "done"
                /\ UNCHANGED <<cmds, exc, database>>
           ELSE \E ok \in BOOLEAN :
                  /\ cmds' = Append(cmds, [cmd |-> "monitor go", ok |-> ok])
                  /\ out' = out
                  /\ IF ok
                     THEN /\ database' = database_of(sshOut)
                          /\ pc' = "loop"
                          /\ exc' = exc
                     ELSE /\ exc' = "gdb.error"
                          /\ pc' = "done"
                          /\ database' = database
        /\ UNCHANGED <<Env, walked, pos, yielded, sshOut, visited,
                       archOut, arch, etype, emember, ebase, eoff, eres>>

\* one turn of the for loop over database.iteritems(), in the dict's order
AddAllModsFastStep ==
    /\ command = "add-kernel-modules-network" /\ pc = "loop"
    /\ visited # DOMAIN database
    /\ \E name \in DOMAIN database \ visited :
         LET sects == database[name]
             filename == findBuildPath(name)
         IN  /\ visited' = visited \cup {name}
             /\ IF filename = "" \/ ".text" \notin DOMAIN sects
                THEN UNCHANGED <<cmds, out, pc, exc>>
                ELSE \E order \in Orders(DOMAIN sects), ok \in BOOLEAN :
                       LET cmd == AddAllModsFast_cmd(filename, sects, order)
                           after == AddAllModsFast_except(filename)
                       IN  /\ cmds' = Append(cmds, [cmd |-> cmd, ok |-> ok])
                           /\ IF ok
                              THEN /\ out' = Append(out, cmd)
                                   /\ UNCHANGED <<pc, exc>>
                              ELSE /\ out' = Append(out, cmd) \o after.print
                                   /\ pc' = after.pc
                                   /\ exc' = after.exc
    /\ UNCHANGED <<Env, command, arg, walked, pos, yielded, sshOut, database,
                   archOut, arch, etype, emember, ebase, eoff, eres>>

\* after the loop: del database; gdb.execute("monitor halt")
AddAllModsFastHalt ==
    /\ command = "add-kernel-modules-network" /\ pc = "loop"
    /\ visited = DOMAIN database
    /\ \E ok \in BOOLEAN :
         /\ cmds' = Append(cmds, [cmd |-> "monitor halt", ok |-> ok])
         /\ exc' = IF ok THEN "" ELSE "gdb.error"
    /\ database' = <<>>
    /\ pc' = "done"
    /\ UNCHANGED <<Env, command, arg, walked, pos, yielded, out, sshOut, visited,
                   archOut, arch, etype, emember, ebase, eoff, eres>>

InitNet ==
    /\ sshOut \in SshOutputs
    /\ database = <<>> /\ visited = {}
    /\ tree \in Trees
    /\ NoKernel /\ Quiet /\ NoLoad /\ NoEntry

NextNet ==
    \/ AddAllModsFastInvoke
    \/ AddAllModsFastStep
    \/ AddAllModsFastHalt

SpecNet == InitNet /\ [][NextNet]_vars

\* the handler is sequential code: once invoked it runs to its end
FairSpecNet == SpecNet /\ WF_vars(AddAllModsFastStep) /\ WF_vars(AddAllModsFastHalt)

(* ------------------------------ load time ----------------------------- *)
\* the words a line of 'show architecture' is made of
ArchWords == {"ia64", "x86-64", "i386", "currently"}

ArchLines == UNION { [1 .. n -> ArchWords] : n \in 1 .. MaxWords }

\* str.find(sub): the lowest index, from 0, where sub occurs in s, -1 when nowhere
find(s, sub) ==
    LET at == { i \in 0 .. (Len(s) - Len(sub)) : SubSeq(s, i + 1, i + Len(sub)) = sub }
    IN  IF at = {} THEN -1
        ELSE CHOOSE i \in at : \A j \in at : i <= j

\* Python's truth value of an int
truth(i) == i # 0

\* def run(cmd): the gdb commands it executes
run(cmd) ==
    << [cmd |-> "set logging file tfile", ok |-> TRUE],
       [cmd |-> "set logging on", ok |-> TRUE],
       [cmd |-> cmd, ok |-> TRUE],
       [cmd |-> "set logging off", ok |-> TRUE] >>

\* the if / elif chain over arch_str
arch_of(arch_str) ==
    IF truth(find(arch_str, <<"ia64">>)) THEN "ia64"
    ELSE IF truth(find(arch_str, <<"x86-64">>)) THEN "x86_64"
    ELSE IF truth(find(arch_str, <<"i386">>)) THEN "ia32"
    ELSE "unknown"

\* set remotetimeout 15; arch_str = run("show architecture")[0]; if ... else
LoadDetect ==
    /\ archOut # <<>> /\ pc = "idle"
    /\ cmds' = cmds \o <<[cmd |-> "set remotetimeout 15", ok |-> TRUE]>>
                    \o run("show architecture")
    /\ arch' = arch_of(archOut[1])
    /\ pc' = "detected"
    /\ UNCHANGED <<Env, command, arg, walked, pos, yielded, exc, out,
                   sshOut, database, visited, archOut, etype, emember, ebase, eoff, eres>>

\* if arch == "ia32": run("monitor arch ia32")
LoadMonitor ==
    /\ archOut # <<>> /\ pc = "detected"
    /\ cmds' = IF arch = "ia32" THEN cmds \o run("monitor arch ia32") ELSE cmds
    /\ pc' = "done"
    /\ UNCHANGED <<Env, command, arg, walked, pos, yielded, exc, out,
                   sshOut, database, visited, archOut, arch, etype, emember, ebase, eoff, eres>>

InitLoad ==
    /\ archOut \in { <<l>> : l \in ArchLines }
    /\ arch = ""
    /\ tree = <<>>
    /\ NoKernel /\ Quiet /\ NoNet /\ NoEntry

NextLoad ==
    \/ LoadDetect
    \/ LoadMonitor

SpecLoad == InitLoad /\ [][NextLoad]_vars

(* ===================== the properties of the script =================== *)
\* what the kernel and the build tree hold, read off kmods and tree directly
HasBuildFile(m) == \E i \in DOMAIN tree : tree[i].name = m /\ ~UnderLibModules(tree[i])

BuildFile(m) ==
    PathStr(tree[CHOOSE i \in DOMAIN tree :
                    /\ tree[i].name = m /\ ~UnderLibModules(tree[i])
                    /\ \A j \in DOMAIN tree :
                         (tree[j].name = m /\ ~UnderLibModules(tree[j])) => i <= j])

HasSection(i, sec) == \E k \in DOMAIN kmods[i].sect.attrs : kmods[i].sect.attrs[k].name = sec

SectionAddress(i, sec) ==
    ToString(kmods[i].sect.attrs[CHOOSE k \in DOMAIN kmods[i].sect.attrs :
                                      kmods[i].sect.attrs[k].name = sec].address)

Option(i, sec) ==
    IF HasSection(i, sec) THEN " -s " \o sec \o " " \o SectionAddress(i, sec) ELSE ""

\* 'add-symbol-file <file> <address of .text>' and the options for '.bss',
\* '.data', '.init.text' of the i-th module of the kernel
CommandFor(i) ==
    "add-symbol-file " \o BuildFile(kmods[i].name) \o " " \o SectionAddress(i, ".text")
        \o Option(i, ".bss") \o Option(i, ".data") \o Option(i, ".init.text")

Loadable(i) == HasBuildFile(kmods[i].name) /\ HasSection(i, ".text")

\* the modules among the first n of the list that have a build file and '.text'
LoadableUpTo(n) == SelectSeq([i \in 1 .. n |-> i], Loadable)

CommandsUpTo(n) == [k \in DOMAIN LoadableUpTo(n) |-> CommandFor(LoadableUpTo(n)[k])]

CommandTexts == [k \in DOMAIN cmds |-> cmds[k].cmd]

Count(seq, P(_)) == Cardinality({k \in DOMAIN seq : P(seq[k])})

\* C1: on a well-formed circular list of n links listhead_iter yields the
\* entry of each link, in 'next' order: what it has yielded is always the
\* entries of the first links, never the entry of the head; it has yielded
\* all n when it stops, and it stops once it has yielded n (none when n = 0).
C1_ListheadIterYieldsEveryLink ==
    walked =>
        /\ Len(yielded) <= Len(kmods)
        /\ \A i \in DOMAIN yielded :
             /\ yielded[i] = kmods[i].base
             /\ MemberAddr(yielded[i], "struct module", "list") # HeadAddr
        /\ (pc = "loop" /\ Len(yielded) = Len(kmods)) => pos = HeadAddr
        /\ (pc = "loop" /\ Len(yielded) < Len(kmods)) => pos = LinkOf(Len(yielded) + 1)
        /\ (pc = "done" /\ command \in {"lsmod", "add-kernel-modules"})
              => Len(yielded) = Len(kmods)

\* lsmod has walked a list of two modules whose list order is not address order
C1_Witness ==
    /\ command = "lsmod" /\ pc = "done"
    /\ Len(yielded) = 2
    /\ yielded[1] > yielded[2]

\* C2: list_entry inverts member addressing: applied to the address of member
\* m of an element at b, with the offset of m (the address of m in a structure
\* at address 0), it gives b back.
C2_ListEntryInvertsOffset ==
    /\ (etype # "" /\ pc \in {"offset", "done"}) => eoff = MemberAddr(0, etype, emember)
    /\ (etype # "" /\ pc = "done") => eres = ebase

\* the member's address wrapped around the end of the address space
C2_Witness ==
    /\ etype = "struct module" /\ pc = "done"
    /\ eoff > 0
    /\ ebase + eoff >= Word

\* C3: add-kernel-modules attempts exactly one add-symbol-file for every module
\* that has a build file and '.text', in list order, whatever happened for the
\* modules before it; a missing build file and a failed command are reported
\* by a printed message each.
C3_AddAllModsContinuesAfterFailure ==
    (command = "add-kernel-modules" /\ walked) =>
        /\ CommandTexts = CommandsUpTo(Len(yielded))
        /\ pc = "done" => CommandTexts = CommandsUpTo(Len(kmods))
        /\ Len(out) = Count(cmds, LAMBDA c : ~c.ok)
                        + Count(yielded, LAMBDA b : ~HasBuildFile(name_at(b)))
        /\ \A k \in DOMAIN cmds :
             ~cmds[k].ok =>
                \E j \in DOMAIN out :
                    out[j] = MsgLoadError(BuildFile(kmods[LoadableUpTo(Len(kmods))[k]].name))
        /\ \A i \in DOMAIN yielded :
             ~HasBuildFile(kmods[i].name) =>
                \E j \in DOMAIN out : out[j] = MsgNoFile(kmods[i].name)

\* the command for the first of two modules raised and the command for the
\* second was attempted all the same
C3_Witness ==
    /\ command = "add-kernel-modules" /\ pc = "done"
    /\ Len(kmods) = 2
    /\ Len(cmds) = 2
    /\ ~cmds[1].ok

\* C4: every command add-kernel-modules, modprobe and add-this-module issue is
\* 'add-symbol-file <file> <address of .text>' followed by ' -s <section>
\* <address>' for those of '.bss', '.data', '.init.text' the module has, in
\* that order, with the module's own addresses and no other option.
C4_CommandBuiltFromModuleAddresses ==
    \A k \in DOMAIN cmds :
        /\ command = "add-kernel-modules" =>
              \E i \in DOMAIN kmods : Loadable(i) /\ cmds[k].cmd = CommandFor(i)
        /\ command = "modprobe" =>
              \E i \in DOMAIN kmods :
                  kmods[i].name = arg /\ Loadable(i) /\ cmds[k].cmd = CommandFor(i)
        /\ command = "add-this-module" =>
              Loadable(frame.mod) /\ cmds[k].cmd = CommandFor(frame.mod)

\* add-kernel-modules issued the command of a module that has all three
\* sections and '.rodata' besides
C4_Witness ==
    /\ command = "add-kernel-modules"
    /\ cmds # <<>>
    /\ cmds[1].cmd = "add-symbol-file ./drivers/a.ko 8 -s .bss 11 -s .data 9 -s .init.text 12"

\* the handler's read of the frame and of 'modules' (or 'mod') fails
ReadFails ==
    /\ command \in {"lsmod", "add-kernel-modules", "modprobe", "add-this-module"}
    /\ command = "modprobe" => (arg # "" /\ HasBuildFile(arg))
    /\ IF command = "add-this-module"
       THEN ~(frame.attached /\ frame.mod \in DOMAIN kmods)
       ELSE ~frame.attached

\* C5: when the read of the frame or of 'modules' / 'mod' fails, each of
\* lsmod, add-kernel-modules, modprobe (of a module with a build file) and
\* add-this-module prints its error message and returns: no debugger command
\* is issued and the module list is not traversed.
C5_NoKernelNoCommand ==
    ReadFails =>
        /\ pc = "done"
        /\ exc = ""
        /\ cmds = <<>>
        /\ ~walked /\ yielded = <<>>
        /\ out = <<IF command = "add-this-module" THEN MsgNoMod ELSE MsgNoKernel>>

\* modprobe of a module that has a build file, with no kernel attached
C5_Witness ==
    /\ command = "modprobe" /\ arg = "a"
    /\ ~frame.attached
    /\ out = <<MsgNoKernel>>

\* C8: for a module M of the list that has a build file and '.text' and is the
\* first of its name, 'modprobe <name of M>' issues one command, the one
\* add-kernel-modules builds for M.
C8_ModprobeAgreesWithAddAllMods ==
    (command = "modprobe" /\ pc = "done" /\ frame.attached) =>
        \A i \in DOMAIN kmods :
            ( /\ kmods[i].name = arg
              /\ Loadable(i)
              /\ \A j \in 1 .. (i - 1) : kmods[j].name # arg )
            => /\ Len(cmds) = 1
               /\ cmds[1].cmd = AddAllMods_cmd(findBuildPath(name_at(kmods[i].base)),
                                               adict_of(kmods[i].base))

\* modprobe took the first of two modules of the same name, which has '.bss'
\* and '.data'
C8_Witness ==
    /\ command = "modprobe" /\ pc = "done" /\ arg = "a"
    /\ Len(kmods) = 2 /\ kmods[1].name = "a" /\ kmods[2].name = "a"
    /\ Len(cmds) = 1
    /\ HasSection(1, ".bss") /\ HasSection(1, ".data")

Contains(line, w) == \E i \in DOMAIN line : line[i] = w

MonitorArchRun == \E k \in DOMAIN cmds : cmds[k].cmd = "monitor arch ia32"

\* C6: arch is 'ia64' exactly when the first line of 'show architecture'
\* contains 'ia64', otherwise 'x86_64' when it contains 'x86-64', otherwise
\* 'ia32' when it contains 'i386', otherwise 'unknown'; 'monitor arch ia32' is
\* run exactly when the line names i386 and neither ia64 nor x86-64.
C6_ArchFromFirstLine ==
    (archOut # <<>> /\ pc = "done") =>
        LET line == archOut[1]
        IN  /\ arch = IF Contains(line, "ia64") THEN "ia64"
                      ELSE IF Contains(line, "x86-64") THEN "x86_64"
                      ELSE IF Contains(line, "i386") THEN "ia32"
                      ELSE "unknown"
            /\ MonitorArchRun <=> ( /\ Contains(line, "i386")
                                    /\ ~Contains(line, "ia64")
                                    /\ ~Contains(line, "x86-64") )

NetCommand == command = "add-kernel-modules-network"

HaltIssued == cmds # <<>> /\ cmds[Len(cmds)].cmd = "monitor halt"

\* 'monitor go' comes first and once, 'monitor halt' last and once; a failed
\* 'monitor go' ends the handler; with an empty target nothing is issued
NetBracket ==
    NetCommand =>
        /\ arg = "" => (cmds = <<>> /\ pc = "done")
        /\ arg # "" =>
              /\ cmds # <<>>
              /\ cmds[1].cmd = "monitor go"
              /\ \A k \in 2 .. Len(cmds) : cmds[k].cmd # "monitor go"
              /\ ~cmds[1].ok => (Len(cmds) = 1 /\ pc = "done")
        /\ \A k \in DOMAIN cmds :
              cmds[k].cmd = "monitor halt" => (k = Len(cmds) /\ pc = "done")
        /\ (pc = "done" /\ arg # "" /\ cmds[1].ok) => HaltIssued

\* C7 as stated: with a non-empty target 'monitor halt' is issued after the
\* last add-symbol-file command on every execution of the handler.
C7_HaltOnEveryExecution ==
    (NetCommand /\ pc = "done" /\ arg # "") => HaltIssued

\* C7: with a non-empty target 'monitor go' is issued before any
\* add-symbol-file command; when 'monitor go' succeeds, 'monitor halt' is
\* eventually issued, after the last add-symbol-file command, also when some
\* or all of these raise; when 'monitor go' raises the handler ends there,
\* with no add-symbol-file and no 'monitor halt'; with an empty target none of
\* the three is issued.
C7_HaltAfterGoSucceeds ==
    /\ []NetBracket
    /\ (NetCommand /\ arg # "" /\ cmds # <<>> /\ cmds[1].ok) ~> HaltIssued

\* two add-symbol-file commands, both raising, between 'monitor go' and
\* 'monitor halt'
C7_Witness ==
    /\ NetCommand /\ pc = "done"
    /\ Len(cmds) = 4
    /\ ~cmds[2].ok /\ ~cmds[3].ok
    /\ HaltIssued

====
